---- MODULE Spec2Model ----
(***************************************************************************)
(* A model of cov (src/main.go): per-file statement coverage computed from *)
(* a Go coverage profile and the extents of the function declarations of   *)
(* each profiled source file.                                              *)
(*                                                                         *)
(* Four specifications share the variables below:                          *)
(*   SpecCoverage  FuncExtent.coverage, one loop trip per step             *)
(*   SpecFindFile  findFile on a go list result                            *)
(*   SpecVisit     test / FuncVisitor.Visit on a syntax tree               *)
(*   Spec          main and run, from the command line to the exit status  *)
(***************************************************************************)
EXTENDS Integers, Sequences, FiniteSets, TLC

(***************************************************************************)
(* Bounds of the model.                                                    *)
(***************************************************************************)
MaxLine == 2

MaxCol == 3

MaxBlocks == 2

MaxStmt == 2

MaxDecls == 3

MaxLits == 1

MaxProfiles == 3

VARIABLES
    args,       \* main: the command line, the file argument and the reverse flag
    pc,         \* main and run: the position in the program
    profiles,   \* run: what cover.ParseProfiles returned
    dirs,       \* run: the map findPkgs returned
    idx,        \* run: the index of the profile the loop of line 66 is at
    total,      \* run: the statements of all functions so far
    covered,    \* run: the covered statements of all functions so far
    coverfiles, \* run: the coveredFile of every profile processed
    row,        \* run: the index of the coveredFile the loop of line 96 is at
    tabber,     \* run: the rows written to the tab writer and not yet flushed
    stdout,     \* the lines on standard output
    err,        \* what run, the Action and app.Run return
    exitCode,   \* the exit status of the process, -1 while it runs
    parsed,     \* test: what parser.ParseFile returns for the file
    visit,      \* test: the position in the call, visitor.funcs and the error
    pkgs,       \* findFile: the map from import path to *Pkg
    file,       \* findFile: the file reference
    found,      \* findFile: the position in the call and what it returns
    f,          \* coverage: the receiver, a FuncExtent
    profile,    \* coverage: the argument, a cover.Profile (its Blocks)
    scan        \* coverage: the locals (covered, total), the range index
                \* and the position in the function; added is the history
                \* of the indices of the blocks that reached line 192

covVars == <<f, profile, scan>>

findVars == <<pkgs, file, found>>

visitVars == <<parsed, visit>>

runVars ==
    <<args, pc, profiles, dirs, idx, total, covered, coverfiles, row, tabber, stdout,
      err, exitCode>>

vars == <<covVars, findVars, visitVars, runVars>>

(***************************************************************************)
(* Values.                                                                 *)
(***************************************************************************)
Lines == 1..MaxLine

Cols == 1..MaxCol

\* cover.ProfileBlock's Count: never hit, or hit some number of times.
Counts == {0, 5}

\* Lexicographic order on (line, col) positions.
PosLess(l1, c1, l2, c2) == l1 < l2 \/ (l1 = l2 /\ c1 < c2)

PosLeq(l1, c1, l2, c2) == l1 < l2 \/ (l1 = l2 /\ c1 <= c2)

FuncExtent(name, sl, sc, el, ec) ==
    [name |-> name, startLine |-> sl, startCol |-> sc, endLine |-> el, endCol |-> ec]

ProfileBlock(sl, sc, el, ec, n, c) ==
    [StartLine |-> sl, StartCol |-> sc, EndLine |-> el, EndCol |-> ec,
     NumStmt |-> n, Count |-> c]

\* The extents a declaration can have: it ends after it starts.
Extents ==
    { e \in [name : {"F"}, startLine : Lines, startCol : Cols,
             endLine : Lines, endCol : Cols] :
        PosLess(e.startLine, e.startCol, e.endLine, e.endCol) }

\* The blocks of a profile: each ends after it starts.
Blocks ==
    { b \in [StartLine : Lines, StartCol : Cols, EndLine : Lines, EndCol : Cols,
             NumStmt : 0..MaxStmt, Count : Counts] :
        PosLess(b.StartLine, b.StartCol, b.EndLine, b.EndCol) }

\* cover.ParseProfiles sorts the blocks of every profile by start position
\* (line 182: "The blocks are sorted").
SortedByStart(bs) ==
    \A k \in 1..(Len(bs) - 1) :
        PosLeq(bs[k].StartLine, bs[k].StartCol, bs[k + 1].StartLine, bs[k + 1].StartCol)

\* The sorted block sequences of length n.
RECURSIVE SortedSeqs(_)
SortedSeqs(n) ==
    IF n = 0 THEN { <<>> }
    ELSE UNION { { Append(s, b) : b \in { x \in Blocks : SortedByStart(Append(s, x)) } } :
                 s \in SortedSeqs(n - 1) }

\* The profiles of at most max blocks.
ProfilesUpTo(max) ==
    { [FileName |-> "f.go", Blocks |-> bs] :
        bs \in UNION { SortedSeqs(n) : n \in 0..max } }

(***************************************************************************)
(* Strings are sequences of characters, so that the prefix, directory and  *)
(* base name of a path are computed as the library computes them.  The     *)
(* paths of the model are clean: no doubled or trailing slash.             *)
(***************************************************************************)
\* strings.HasPrefix
HasPrefix(s, prefix) ==
    Len(s) >= Len(prefix) /\ SubSeq(s, 1, Len(prefix)) = prefix

\* filepath.IsAbs on a Unix system: the path starts with a slash.
IsAbs(s) == HasPrefix(s, <<"/">>)

\* The index of the last slash of s, 0 when it has none.
LastSlash(s) ==
    LET at == { k \in 1..Len(s) : s[k] = "/" }
    IN  IF at = {} THEN 0 ELSE CHOOSE k \in at : \A j \in at : j <= k

\* path.Dir: all but the last element of the path, "." when that is empty
\* and "/" for a file of the root.
Dir(s) ==
    LET k == LastSlash(s)
    IN  IF k = 0 THEN <<".">>
        ELSE IF k = 1 THEN <<"/">>
        ELSE SubSeq(s, 1, k - 1)

\* path.Base: the last element of the path.
Base(s) ==
    IF s = <<>> THEN <<".">> ELSE SubSeq(s, LastSlash(s) + 1, Len(s))

\* filepath.Join of two elements: empty elements are dropped.
Join(dir, name) ==
    IF dir = <<>> THEN name
    ELSE IF name = <<>> THEN dir
    ELSE IF dir[Len(dir)] = "/" THEN dir \o name
    ELSE dir \o <<"/">> \o name

(***************************************************************************)
(* Errors and the Pkg records of go list (lines 203-209).                  *)
(***************************************************************************)
NoError == [nil |-> TRUE, format |-> "", text |-> "", path |-> <<>>]

\* errors.New(text)
ErrorsNew(text) == [nil |-> FALSE, format |-> "%s", text |-> text, path |-> <<>>]

\* fmt.Errorf(format, path)
Errorf(format, path) == [nil |-> FALSE, format |-> format, text |-> "", path |-> path]

\* Pkg.Error: a nil pointer, or a struct holding the message.
NoPkgError == [nil |-> TRUE, Err |-> ""]

PkgError(msg) == [nil |-> FALSE, Err |-> msg]

\* A *Pkg: nil, or the record decoded from go list's output.
NilPkg == [nil |-> TRUE, ImportPath |-> <<>>, Dir |-> <<>>, Error |-> NoPkgError]

Pkg(importPath, dir, error) ==
    [nil |-> FALSE, ImportPath |-> importPath, Dir |-> dir, Error |-> error]

\* pkgs[key]: a key the map does not hold reads as nil.
Lookup(m, key) == IF key \in DOMAIN m THEN m[key] ELSE NilPkg

(***************************************************************************)
(* findFile (lines 256-271).                                               *)
(***************************************************************************)
\* findFile with the embedded error tested before the directory.
findFileErrorFirst(m, name) ==
    IF HasPrefix(name, <<".">>) \/ IsAbs(name)
    THEN [path |-> name, err |-> NoError]
    ELSE LET pkg == Lookup(m, Dir(name))
         IN  IF ~pkg.nil /\ ~pkg.Error.nil
             THEN [path |-> <<>>, err |-> ErrorsNew(pkg.Error.Err)]
             ELSE IF ~pkg.nil /\ pkg.Dir # <<>>
             THEN [path |-> Join(pkg.Dir, Base(name)), err |-> NoError]
             ELSE [path |-> <<>>,
                   err |-> Errorf("did not find package for %s in go list output", name)]

findFile(m, name) ==
    IF HasPrefix(name, <<".">>) \/ IsAbs(name)
    THEN [path |-> name, err |-> NoError]
    ELSE LET pkg == Lookup(m, Dir(name))
         IN  IF ~pkg.nil /\ pkg.Dir # <<>>
             THEN [path |-> Join(pkg.Dir, Base(name)), err |-> NoError]
             ELSE IF ~pkg.nil /\ ~pkg.Error.nil
             THEN [path |-> <<>>, err |-> ErrorsNew(pkg.Error.Err)]
             ELSE [path |-> <<>>,
                   err |-> Errorf("did not find package for %s in go list output", name)]

(***************************************************************************)
(* Syntax trees.  A node has a type, a position, an end and children; a    *)
(* FuncDecl also has a name and says whether it has a receiver.            *)
(***************************************************************************)
Node(type, name, recv, sl, sc, el, ec, children) ==
    [type |-> type, name |-> name, recv |-> recv,
     pos |-> [Line |-> sl, Column |-> sc], end |-> [Line |-> el, Column |-> ec],
     children |-> children]

\* The nil node ast.Walk hands to Visit after the children of a node.
NilNode == Node("nil", "", FALSE, 0, 0, 0, 0, <<>>)

\* The k-th declaration of a file takes lines 3k-2 to 3k.
FuncLitAt(k, j) == Node("FuncLit", "", FALSE, 3 * k - 1, 10 * j, 3 * k - 1, 10 * j + 8, <<>>)

FuncLits(k, n) == [j \in 1..n |-> FuncLitAt(k, j)]

BlockStmtAt(k, n) == Node("BlockStmt", "", FALSE, 3 * k - 2, 10, 3 * k, 2, FuncLits(k, n))

\* func name() { ... } or func (r T) name() { ... }, with n function literals
\* in its body.
FuncDeclAt(k, name, recv, n) ==
    Node("FuncDecl", name, recv, 3 * k - 2, 1, 3 * k, 2, <<BlockStmtAt(k, n)>>)

\* var name = ..., with n function literals in its value.
GenDeclAt(k, n) == Node("GenDecl", "", FALSE, 3 * k - 2, 1, 3 * k, 2, FuncLits(k, n))

File(decls) == Node("File", "", FALSE, 1, 1, 3 * Len(decls) + 1, 1, decls)

\* parser.ParseFile: the tree, or the syntax error.
Parsed(ast) == [err |-> NoError, ast |-> ast]

ParseError == [err |-> ErrorsNew("expected declaration"), ast |-> File(<<>>)]

(***************************************************************************)
(* test and FuncVisitor.Visit (lines 128-168).                             *)
(***************************************************************************)
\* Visit collecting only the declarations without a receiver.
VisitNoMethods(funcs, node) ==
    IF node.type = "FuncDecl" /\ ~node.recv
    THEN Append(funcs, FuncExtent(node.name, node.pos.Line, node.pos.Column,
                                  node.end.Line, node.end.Column))
    ELSE funcs

\* Lines 153-168: a *ast.FuncDecl adds its extent to v.funcs; the visitor is
\* returned for every node, so the walk goes on below it.
Visit(funcs, node) ==
    IF node.type = "FuncDecl"
    THEN Append(funcs, FuncExtent(node.name, node.pos.Line, node.pos.Column,
                                  node.end.Line, node.end.Column))
    ELSE funcs

\* Line 141, ast.Walk: Visit(node), the children in order, then Visit(nil).
RECURSIVE Walk(_, _)
RECURSIVE WalkList(_, _)
Walk(funcs, node) ==
    Visit(WalkList(Visit(funcs, node), node.children), NilNode)

WalkList(funcs, nodes) ==
    IF nodes = <<>> THEN funcs
    ELSE WalkList(Walk(funcs, Head(nodes)), Tail(nodes))

\* Lines 128-144, given what parser.ParseFile returned.
test(src) ==
    IF ~src.err.nil THEN [funcs |-> <<>>, err |-> src.err]
    ELSE [funcs |-> Walk(<<>>, src.ast), err |-> NoError]

(***************************************************************************)
(* FuncExtent.coverage (lines 178-201).                                    *)
(***************************************************************************)
\* Line 184: the block starts at or after the end of the function.
PastEnd(fe, b) ==
    b.StartLine > fe.endLine \/ (b.StartLine = fe.endLine /\ b.StartCol >= fe.endCol)

\* BeforeStart with the column compared by < : a block that ends exactly at
\* the beginning of the function is no longer skipped.
BeforeStartStrict(fe, b) ==
    b.EndLine < fe.startLine \/ (b.EndLine = fe.startLine /\ b.EndCol < fe.startCol)

\* Line 188: the block ends at or before the beginning of the function.
BeforeStart(fe, b) ==
    b.EndLine < fe.startLine \/ (b.EndLine = fe.startLine /\ b.EndCol <= fe.startCol)

\* Line 181: the locals before the loop.
ScanStart == [pc |-> "loop", i |-> 1, covered |-> 0, total |-> 0, added |-> <<>>]

\* CountBlock with the hit test b.Count >= 0: every block counts as covered.
CountBlockAnyCount(b, s) ==
    [s EXCEPT !.total = @ + b.NumStmt,
              !.covered = IF b.Count >= 0 THEN @ + b.NumStmt ELSE @,
              !.added = Append(@, s.i),
              !.i = @ + 1]

\* Lines 192-195: the block counts for the function.
CountBlock(b, s) ==
    [s EXCEPT !.total = @ + b.NumStmt,
              !.covered = IF b.Count > 0 THEN @ + b.NumStmt ELSE @,
              !.added = Append(@, s.i),
              !.i = @ + 1]

\* LoopBody with break for continue at line 190: the scan ends at the first
\* block that lies before the function.
LoopBodyBreakBefore(fe, bs, s) ==
    IF s.i > Len(bs) THEN [s EXCEPT !.pc = "fix"]
    ELSE IF PastEnd(fe, bs[s.i]) THEN [s EXCEPT !.pc = "fix"]
    ELSE IF BeforeStart(fe, bs[s.i]) THEN [s EXCEPT !.pc = "fix"]
    ELSE CountBlock(bs[s.i], s)

\* Lines 183-196: one trip of the loop over profile.Blocks.
LoopBody(fe, bs, s) ==
    IF s.i > Len(bs) THEN [s EXCEPT !.pc = "fix"]
    ELSE IF PastEnd(fe, bs[s.i]) THEN [s EXCEPT !.pc = "fix"]
    ELSE IF BeforeStart(fe, bs[s.i]) THEN [s EXCEPT !.i = @ + 1]
    ELSE CountBlock(bs[s.i], s)

\* Lines 197-200: the zero denominator is replaced and the pair returned.
FixTotal(s) ==
    [s EXCEPT !.total = IF @ = 0 THEN 1 ELSE @, !.pc = "ret"]

RECURSIVE RunScan(_, _, _)
RunScan(fe, bs, s) ==
    IF s.pc = "ret" THEN s
    ELSE IF s.pc = "fix" THEN RunScan(fe, bs, FixTotal(s))
    ELSE RunScan(fe, bs, LoopBody(fe, bs, s))

\* f.coverage(profile): the pair (num, den) the call returns.
coverage(fe, p) ==
    LET s == RunScan(fe, p.Blocks, ScanStart)
    IN  [num |-> s.covered, den |-> s.total]

(***************************************************************************)
(* Percentages.  A float64 quotient 100.0 * float64(c) / float64(t) is     *)
(* kept as the fraction it rounds: equal fractions give the same float64,  *)
(* different fractions of small integers different ones, in the same       *)
(* order.  0 / 0 is NaN; c > 0 with t = 0 does not occur (covered <= total).*)
(***************************************************************************)
\* Lines 86 and 102.
Percent(c, t) == [nan |-> t = 0, num |-> 100 * c, den |-> t]

\* p < q on float64: false when either is NaN.
Less(p, q) == ~p.nan /\ ~q.nan /\ p.num * q.den < q.num * p.den

\* p >= q on float64: false when either is NaN.
Geq(p, q) == ~p.nan /\ ~q.nan /\ p.num * q.den >= q.num * p.den

\* p <= k and p > k on float64, for an integer k.
LeqInt(p, k) == ~p.nan /\ p.num <= k * p.den

GtInt(p, k) == ~p.nan /\ p.num > k * p.den

\* The verb %.1f: the value in tenths, rounded to the nearest, a tie to the
\* even tenth (a tie needs a denominator that is a multiple of 16, and is
\* then exact in binary up to 2000); NaN prints as "NaN".
Format(p) ==
    IF p.nan THEN [nan |-> TRUE, tenths |-> 0]
    ELSE LET q == (10 * p.num) \div p.den
             r == (10 * p.num) % p.den
         IN  [nan |-> FALSE,
              tenths |-> IF 2 * r < p.den THEN q
                         ELSE IF 2 * r > p.den THEN q + 1
                         ELSE IF q % 2 = 0 THEN q ELSE q + 1]

\* Lines 109-121.
getColor(percent) ==
    IF LeqInt(percent, 30) THEN "Red"
    ELSE IF GtInt(percent, 30) /\ LeqInt(percent, 70) THEN "Yellow"
    ELSE IF GtInt(percent, 70) THEN "Green"
    ELSE "Default"

(***************************************************************************)
(* sort.Slice (lines 89-94).  For at most 6 elements every version of the  *)
(* library sorts by insertion: element i sinks while less(i, i-1).         *)
(***************************************************************************)
\* Lines 89-94: the less function handed to sort.Slice.
less(reverse, a, b) ==
    IF reverse THEN Geq(a.percent, b.percent) ELSE Less(a.percent, b.percent)

Swap(data, j, k) == [data EXCEPT ![j] = data[k], ![k] = data[j]]

RECURSIVE Sink(_, _, _)
Sink(data, j, reverse) ==
    IF j > 1 /\ less(reverse, data[j], data[j - 1])
    THEN Sink(Swap(data, j, j - 1), j - 1, reverse)
    ELSE data

RECURSIVE InsertFrom(_, _, _)
InsertFrom(data, i, reverse) ==
    IF i > Len(data) THEN data
    ELSE InsertFrom(Sink(data, i, reverse), i + 1, reverse)

sortSlice(data, reverse) == InsertFrom(data, 2, reverse)

(***************************************************************************)
(* findPkgs (lines 211-254).                                               *)
(***************************************************************************)
\* Lines 215-225: the import paths to list, each once, in profile order.
RECURSIVE PkgList(_, _)
PkgList(ps, list) ==
    IF ps = <<>> THEN list
    ELSE LET name == Head(ps).FileName
             pkg == Dir(name)
         IN  IF HasPrefix(name, <<".">>) \/ IsAbs(name) THEN PkgList(Tail(ps), list)
             ELSE IF \E k \in 1..Len(list) : list[k] = pkg THEN PkgList(Tail(ps), list)
             ELSE PkgList(Tail(ps), Append(list, pkg))

\* Lines 211-254, given what running go list did: tool.status is "failed"
\* (cmd.Output returned an error), "garbled" (the output did not decode) or
\* "ok" with the records decoded from the output.
findPkgs(ps, tool) ==
    LET list == PkgList(ps, <<>>)
        listed == { list[k] : k \in 1..Len(list) }
        answered == { tool.out[k].ImportPath : k \in 1..Len(tool.out) }
        last(ip) == CHOOSE k \in 1..Len(tool.out) :
                        /\ tool.out[k].ImportPath = ip
                        /\ \A j \in 1..Len(tool.out) : tool.out[j].ImportPath = ip => j <= k
    IN  IF list = <<>> THEN [pkgs |-> << >>, err |-> NoError]
        ELSE IF tool.status = "failed"
        THEN [pkgs |-> << >>, err |-> Errorf("cannot run go list: %v\n%s", <<>>)]
        ELSE IF tool.status = "garbled"
        THEN [pkgs |-> << >>, err |-> Errorf("decoding go list json: %v", <<>>)]
        ELSE [pkgs |-> [ip \in listed \cup answered |->
                            IF ip \in answered THEN tool.out[last(ip)] ELSE NilPkg],
              err |-> NoError]

(***************************************************************************)
(* The world of the program: the source tree, what go list answers and the *)
(* profiles a test run of that tree can write.                             *)
(***************************************************************************)
aGo == <<".", "/", "a">>

sGo == <<".", "/", "s">>

mGo == <<"/", "m">>

eGo == <<"p", "/", "e">>

lGo == <<"p", "/", "l">>

bGo == <<"q", "/", "b">>

xGo == <<"r", "/", "x">>

\* The directory of a package in the model's file tree.
DirOf(importPath) == <<"/", "w", "/">> \o importPath

\* The file names in the order cover.ParseProfiles sorts the profiles by.
FileOrder == <<aGo, sGo, mGo, eGo, lGo, bGo, xGo>>

\* parser.ParseFile on a path of the tree.
ParseFile(path) ==
    CASE path = aGo ->
           Parsed(File(<<FuncDeclAt(1, "A", FALSE, 0), FuncDeclAt(2, "B", FALSE, 0)>>))
      [] path = mGo ->
           Parsed(File(<<FuncDeclAt(1, "M", TRUE, 0), GenDeclAt(2, 1)>>))
      [] path = DirOf(<<"p">>) \o <<"/", "e">> ->
           Parsed(File(<<FuncDeclAt(1, "E", FALSE, 0)>>))
      [] path = DirOf(<<"p">>) \o <<"/", "l">> ->
           Parsed(File(<<GenDeclAt(1, 1)>>))
      [] OTHER -> ParseError

\* The block of the body of the k-th declaration.
BodyBlock(k, n, c) == ProfileBlock(3 * k - 2, 10, 3 * k, 2, n, c)

\* The profiles of a file: the blocks and their statement counts are those of
\* the source, the hit counts those of the test run.
ProfilesOf(name) ==
    CASE name = aGo ->
           { [FileName |-> name, Blocks |-> <<BodyBlock(1, 3, c1), BodyBlock(2, 2, c2)>>] :
               c1 \in Counts, c2 \in Counts }
      [] name = mGo ->
           { [FileName |-> name, Blocks |-> <<BodyBlock(1, 1, c1), BodyBlock(2, 1, c2)>>] :
               c1 \in Counts, c2 \in Counts }
      [] name = eGo ->
           { [FileName |-> name, Blocks |-> <<BodyBlock(1, 0, c)>>] : c \in Counts }
      [] name = lGo ->
           { [FileName |-> name, Blocks |-> <<BodyBlock(1, 1, c)>>] : c \in Counts }
      [] OTHER ->
           { [FileName |-> name, Blocks |-> <<BodyBlock(1, 1, 0)>>] }

\* The lists of at most n profiles of the files FileOrder[k], ..., sorted by
\* file name, one profile per file.
RECURSIVE ProfileLists(_, _)
ProfileLists(k, n) ==
    IF k > Len(FileOrder) \/ n = 0 THEN { <<>> }
    ELSE ProfileLists(k + 1, n) \cup
         { <<p>> \o rest : p \in ProfilesOf(FileOrder[k]), rest \in ProfileLists(k + 1, n - 1) }

\* What go list -e -json prints for an import path of the tree: package p is
\* found, package q has an error and no directory, package r has no record.
GoListRecord(ip) ==
    CASE ip = <<"p">> -> <<Pkg(ip, DirOf(ip), NoPkgError)>>
      [] ip = <<"q">> -> <<Pkg(ip, <<>>, PkgError("build constraints exclude all Go files"))>>
      [] OTHER -> <<>>

RECURSIVE GoListOutput(_)
GoListOutput(list) ==
    IF list = <<>> THEN <<>> ELSE GoListRecord(Head(list)) \o GoListOutput(Tail(list))

\* What running go list on the import paths can do.
GoListResults(list) ==
    { [status |-> "failed", out |-> <<>>],
      [status |-> "garbled", out |-> <<>>],
      [status |-> "ok", out |-> GoListOutput(list)] }

(***************************************************************************)
(* The file references and the go list results of the model.               *)
(***************************************************************************)
FileRefs ==
    { <<".", "/", "a">>, <<".", "/", "s">>, <<"/", "m">>,
      <<"p", "/", "e">>, <<"p", "/", "l">>, <<"q", "/", "b">>, <<"r", "/", "x">> }

PkgMessages == { "build constraints exclude all Go files" }

\* What go list -e -json can report for one import path.
PkgsOf(importPath) ==
    { Pkg(importPath, dir, error) :
        dir \in { <<>>, DirOf(importPath) },
        error \in { NoPkgError } \cup { PkgError(m) : m \in PkgMessages } }

\* The maps findPkgs can build for the import paths in listed: an import
\* path go list does not answer for stays nil or is missing.
PkgMaps(listed) ==
    UNION { { m \in [D -> UNION { PkgsOf(ip) : ip \in D } \cup { NilPkg }] :
                \A ip \in D : m[ip].nil \/ m[ip].ImportPath = ip } :
            D \in SUBSET listed }

\* The variables of a program that is not running.
RunIdle ==
    /\ args = [file |-> <<>>, reverse |-> FALSE]
    /\ pc = "idle"
    /\ profiles = <<>>
    /\ dirs = << >>
    /\ idx = 1
    /\ total = 0
    /\ covered = 0
    /\ coverfiles = <<>>
    /\ row = 1
    /\ tabber = <<>>
    /\ stdout = <<>>
    /\ err = NoError
    /\ exitCode = -1

\* The variables of a call of coverage that is not running.
CovIdle ==
    /\ f = FuncExtent("F", 1, 1, 1, 2)
    /\ profile = [FileName |-> "f.go", Blocks |-> <<>>]
    /\ scan = [ScanStart EXCEPT !.pc = "idle"]

\* The variables of a call of test that is not running.
VisitIdle ==
    /\ parsed = Parsed(File(<<>>))
    /\ visit = [pc |-> "idle", funcs |-> <<>>, err |-> NoError]

\* The variables of a call of findFile that is not running.
FindIdle ==
    /\ pkgs = << >>
    /\ file = << >>
    /\ found = [pc |-> "idle", path |-> <<>>, err |-> NoError]

(***************************************************************************)
(* SpecFindFile: one call of findFile.                                     *)
(***************************************************************************)
InitFindFile ==
    /\ pkgs \in PkgMaps({ <<"p">>, <<"q">> })
    /\ file \in FileRefs
    /\ found = [pc |-> "call", path |-> <<>>, err |-> NoError]
    /\ CovIdle
    /\ VisitIdle
    /\ RunIdle

FindFileCall ==
    /\ found.pc = "call"
    /\ found' = [pc |-> "ret"] @@ findFile(pkgs, file)
    /\ UNCHANGED <<pkgs, file, covVars, visitVars, runVars>>

NextFindFile == FindFileCall

SpecFindFile == InitFindFile /\ [][NextFindFile]_vars

(***************************************************************************)
(* Spec: main and run (lines 25-107).                                      *)
(***************************************************************************)
coverOut == <<"c", ".", "o", "u", "t">>

NoText == [nan |-> FALSE, tenths |-> 0]

\* Lines 97-98: a file's row, in the colour of its percentage.
FileRow(cf) ==
    [kind |-> "file", color |-> getColor(cf.percent), name |-> cf.filename,
     text |-> Format(cf.percent), err |-> NoError]

\* Line 101: the empty row, in the colour last set.
BlankRow(rows) ==
    [kind |-> "blank", color |-> IF rows = <<>> THEN "Default" ELSE rows[Len(rows)].color,
     name |-> <<>>, text |-> NoText, err |-> NoError]

\* Lines 102-104: the Total row.
TotalRow(percent) ==
    [kind |-> "total", color |-> getColor(percent), name |-> <<>>,
     text |-> Format(percent), err |-> NoError]

\* Line 45: the error line main prints on standard output.
ErrorLine(e) ==
    [kind |-> "error", color |-> "Default", name |-> <<>>, text |-> NoText, err |-> e]

\* AddFunc with the run's total assigned instead of summed.
AddFuncTotalAssigned(acc, r) ==
    [fileTotal |-> acc.fileTotal + r.den, fileCovered |-> acc.fileCovered + r.num,
     total |-> r.den, covered |-> acc.covered + r.num]

\* Lines 78-82: the pair of one function enters the file's and the run's sums.
AddFunc(acc, r) ==
    [fileTotal |-> acc.fileTotal + r.den, fileCovered |-> acc.fileCovered + r.num,
     total |-> acc.total + r.den, covered |-> acc.covered + r.num]

\* Lines 77-83: the loop over the extents of a file.
RECURSIVE FileSums(_, _, _)
FileSums(fes, p, acc) ==
    IF fes = <<>> THEN acc
    ELSE FileSums(Tail(fes), p, AddFunc(acc, coverage(Head(fes), p)))

Init ==
    /\ args \in [file : { <<>>, coverOut }, reverse : BOOLEAN]
    /\ pc = "main"
    /\ profiles = <<>>
    /\ dirs = << >>
    /\ idx = 1
    /\ total = 0
    /\ covered = 0
    /\ coverfiles = <<>>
    /\ row = 1
    /\ tabber = <<>>
    /\ stdout = <<>>
    /\ err = NoError
    /\ exitCode = -1
    /\ CovIdle
    /\ FindIdle
    /\ VisitIdle

\* A return of run: the deferred tabber.Flush of line 51 runs, and the error
\* goes back through the Action and app.Run to main.
Return(e) ==
    /\ err' = e
    /\ stdout' = stdout \o tabber
    /\ tabber' = <<>>
    /\ pc' = "appReturn"

\* Lines 36-39: no file argument.
MainUsage ==
    /\ pc = "main"
    /\ args.file = <<>>
    /\ err' = ErrorsNew("please provide a coverage file")
    /\ pc' = "appReturn"
    /\ UNCHANGED <<args, profiles, dirs, idx, total, covered, coverfiles, row, tabber,
                   stdout, exitCode, covVars, findVars, visitVars>>

\* Lines 35-40 and 50-51: run is called.
MainRun ==
    /\ pc = "main"
    /\ args.file # <<>>
    /\ pc' = "ParseProfiles"
    /\ UNCHANGED <<args, profiles, dirs, idx, total, covered, coverfiles, row, tabber,
                   stdout, err, exitCode, covVars, findVars, visitVars>>

\* Lines 53-56: the profile cannot be read or parsed.
RunParseProfilesFails ==
    /\ pc = "ParseProfiles"
    /\ Return(ErrorsNew("bad mode line"))
    /\ UNCHANGED <<args, profiles, dirs, idx, total, covered, coverfiles, row,
                   exitCode, covVars, findVars, visitVars>>

\* Line 53: the profiles, sorted by file name.
RunParseProfiles ==
    /\ pc = "ParseProfiles"
    /\ \E ps \in ProfileLists(1, MaxProfiles) : profiles' = ps
    /\ pc' = "findPkgs"
    /\ UNCHANGED <<args, dirs, idx, total, covered, coverfiles, row, tabber, stdout,
                   err, exitCode, covVars, findVars, visitVars>>

\* Lines 58-62: findPkgs fails.
RunFindPkgsFails ==
    /\ pc = "findPkgs"
    /\ \E tool \in GoListResults(PkgList(profiles, <<>>)) :
           LET r == findPkgs(profiles, tool)
           IN  /\ ~r.err.nil
               /\ Return(r.err)
    /\ UNCHANGED <<args, profiles, dirs, idx, total, covered, coverfiles, row,
                   exitCode, covVars, findVars, visitVars>>

\* Lines 58-64: findPkgs returns the map.
RunFindPkgs ==
    /\ pc = "findPkgs"
    /\ \E tool \in GoListResults(PkgList(profiles, <<>>)) :
           LET r == findPkgs(profiles, tool)
           IN  /\ r.err.nil
               /\ dirs' = r.pkgs
    /\ pc' = "loop"
    /\ UNCHANGED <<args, profiles, idx, total, covered, coverfiles, row, tabber, stdout,
                   err, exitCode, covVars, findVars, visitVars>>

\* Lines 66-71: the file of the profile is not found.
RunFindFileFails ==
    /\ pc = "loop"
    /\ idx <= Len(profiles)
    /\ LET ff == findFile(dirs, profiles[idx].FileName)
       IN  /\ ~ff.err.nil
           /\ Return(ff.err)
    /\ UNCHANGED <<args, profiles, dirs, idx, total, covered, coverfiles, row,
                   exitCode, covVars, findVars, visitVars>>

\* Lines 66-75: the file of the profile does not parse.
RunTestFails ==
    /\ pc = "loop"
    /\ idx <= Len(profiles)
    /\ LET ff == findFile(dirs, profiles[idx].FileName)
           t == test(ParseFile(ff.path))
       IN  /\ ff.err.nil
           /\ ~t.err.nil
           /\ Return(t.err)
    /\ UNCHANGED <<args, profiles, dirs, idx, total, covered, coverfiles, row,
                   exitCode, covVars, findVars, visitVars>>

\* RunProfile writing the file's row as soon as the file is processed.
RunProfileEager ==
    /\ pc = "loop"
    /\ idx <= Len(profiles)
    /\ LET p == profiles[idx]
           ff == findFile(dirs, p.FileName)
           t == test(ParseFile(ff.path))
           sums == FileSums(t.funcs, p, [fileTotal |-> 0, fileCovered |-> 0,
                                         total |-> total, covered |-> covered])
           cf == [filename |-> ff.path,
                  percent |-> Percent(sums.fileCovered, sums.fileTotal)]
       IN  /\ ff.err.nil
           /\ t.err.nil
           /\ total' = sums.total
           /\ covered' = sums.covered
           /\ coverfiles' = Append(coverfiles, cf)
           /\ tabber' = Append(tabber, FileRow(cf))
    /\ idx' = idx + 1
    /\ UNCHANGED <<args, pc, profiles, dirs, row, stdout, err, exitCode,
                   covVars, findVars, visitVars>>

\* Lines 66-88: one profile is processed.
RunProfile ==
    /\ pc = "loop"
    /\ idx <= Len(profiles)
    /\ LET p == profiles[idx]
           ff == findFile(dirs, p.FileName)
           t == test(ParseFile(ff.path))
           sums == FileSums(t.funcs, p, [fileTotal |-> 0, fileCovered |-> 0,
                                         total |-> total, covered |-> covered])
       IN  /\ ff.err.nil
           /\ t.err.nil
           /\ total' = sums.total
           /\ covered' = sums.covered
           /\ coverfiles' = Append(coverfiles,
                  [filename |-> ff.path,
                   percent |-> Percent(sums.fileCovered, sums.fileTotal)])
    /\ idx' = idx + 1
    /\ UNCHANGED <<args, pc, profiles, dirs, row, tabber, stdout, err, exitCode,
                   covVars, findVars, visitVars>>

\* Lines 89-94: the loop is over, the files are sorted.
RunSort ==
    /\ pc = "loop"
    /\ idx > Len(profiles)
    /\ coverfiles' = sortSlice(coverfiles, args.reverse)
    /\ pc' = "rows"
    /\ UNCHANGED <<args, profiles, dirs, idx, total, covered, row, tabber, stdout,
                   err, exitCode, covVars, findVars, visitVars>>

\* Lines 96-99: one file's row is written.
RunPrintRow ==
    /\ pc = "rows"
    /\ row <= Len(coverfiles)
    /\ tabber' = Append(tabber, FileRow(coverfiles[row]))
    /\ row' = row + 1
    /\ UNCHANGED <<args, pc, profiles, dirs, idx, total, covered, coverfiles, stdout,
                   err, exitCode, covVars, findVars, visitVars>>

\* Lines 101-104: the empty row and the Total row are written.
RunPrintTotal ==
    /\ pc = "rows"
    /\ row > Len(coverfiles)
    /\ tabber' = tabber \o <<BlankRow(tabber), TotalRow(Percent(covered, total))>>
    /\ pc' = "return"
    /\ UNCHANGED <<args, profiles, dirs, idx, total, covered, coverfiles, row, stdout,
                   err, exitCode, covVars, findVars, visitVars>>

\* Line 106: run returns nil.
RunReturn ==
    /\ pc = "return"
    /\ Return(NoError)
    /\ UNCHANGED <<args, profiles, dirs, idx, total, covered, coverfiles, row,
                   exitCode, covVars, findVars, visitVars>>

\* Lines 44-47: app.Run returned an error; main prints it and returns, so the
\* process ends with status 0.
MainReport ==
    /\ pc = "appReturn"
    /\ ~err.nil
    /\ stdout' = Append(stdout, ErrorLine(err))
    /\ pc' = "exit"
    /\ exitCode' = 0
    /\ UNCHANGED <<args, profiles, dirs, idx, total, covered, coverfiles, row, tabber,
                   err, covVars, findVars, visitVars>>

\* Lines 44-47: app.Run returned nil; main returns.
MainExit ==
    /\ pc = "appReturn"
    /\ err.nil
    /\ pc' = "exit"
    /\ exitCode' = 0
    /\ UNCHANGED <<args, profiles, dirs, idx, total, covered, coverfiles, row, tabber,
                   stdout, err, covVars, findVars, visitVars>>

Next ==
    \/ MainUsage
    \/ MainRun
    \/ RunParseProfilesFails
    \/ RunParseProfiles
    \/ RunFindPkgsFails
    \/ RunFindPkgs
    \/ RunFindFileFails
    \/ RunTestFails
    \/ RunProfile
    \/ RunSort
    \/ RunPrintRow
    \/ RunPrintTotal
    \/ RunReturn
    \/ MainReport
    \/ MainExit

Spec == Init /\ [][Next]_vars

(***************************************************************************)
(* SpecVisit: one call of test on a parsed file.                           *)
(***************************************************************************)
DeclKinds == [kind : {"func", "method", "var"}, lits : 0..MaxLits]

DeclNames == <<"A", "B", "C", "D", "E", "G", "H", "I">>

DeclFrom(k, d) ==
    IF d.kind = "var" THEN GenDeclAt(k, d.lits)
    ELSE FuncDeclAt(k, DeclNames[k], d.kind = "method", d.lits)

\* The files of at most MaxDecls declarations.
Sources ==
    UNION { { File([k \in 1..n |-> DeclFrom(k, ds[k])]) : ds \in [1..n -> DeclKinds] } :
            n \in 0..MaxDecls }

InitVisit ==
    /\ parsed \in { Parsed(ast) : ast \in Sources } \cup { ParseError }
    /\ visit = [pc |-> "call", funcs |-> <<>>, err |-> NoError]
    /\ CovIdle
    /\ FindIdle
    /\ RunIdle

TestCall ==
    /\ visit.pc = "call"
    /\ visit' = [pc |-> "ret"] @@ test(parsed)
    /\ UNCHANGED <<parsed, covVars, findVars, runVars>>

NextVisit == TestCall

SpecVisit == InitVisit /\ [][NextVisit]_vars

(***************************************************************************)
(* SpecCoverage: one call of coverage, a loop trip per step.               *)
(***************************************************************************)
InitCoverage ==
    /\ f \in Extents
    /\ profile \in ProfilesUpTo(MaxBlocks)
    /\ scan = ScanStart
    /\ FindIdle
    /\ VisitIdle
    /\ RunIdle

Cur == profile.Blocks[scan.i]

CovBreak ==
    /\ scan.pc = "loop"
    /\ scan.i <= Len(profile.Blocks)
    /\ PastEnd(f, Cur)
    /\ scan' = LoopBody(f, profile.Blocks, scan)
    /\ UNCHANGED <<f, profile, findVars, visitVars, runVars>>

CovContinue ==
    /\ scan.pc = "loop"
    /\ scan.i <= Len(profile.Blocks)
    /\ ~PastEnd(f, Cur)
    /\ BeforeStart(f, Cur)
    /\ scan' = LoopBody(f, profile.Blocks, scan)
    /\ UNCHANGED <<f, profile, findVars, visitVars, runVars>>

CovCount ==
    /\ scan.pc = "loop"
    /\ scan.i <= Len(profile.Blocks)
    /\ ~PastEnd(f, Cur)
    /\ ~BeforeStart(f, Cur)
    /\ scan' = LoopBody(f, profile.Blocks, scan)
    /\ UNCHANGED <<f, profile, findVars, visitVars, runVars>>

CovLoopEnd ==
    /\ scan.pc = "loop"
    /\ scan.i > Len(profile.Blocks)
    /\ scan' = LoopBody(f, profile.Blocks, scan)
    /\ UNCHANGED <<f, profile, findVars, visitVars, runVars>>

CovReturn ==
    /\ scan.pc = "fix"
    /\ scan' = FixTotal(scan)
    /\ UNCHANGED <<f, profile, findVars, visitVars, runVars>>

NextCoverage == CovBreak \/ CovContinue \/ CovCount \/ CovLoopEnd \/ CovReturn

SpecCoverage == InitCoverage /\ [][NextCoverage]_vars

(***************************************************************************)
(* Properties of coverage.                                                 *)
(***************************************************************************)
RECURSIVE SumStmt(_, _)
\* The sum of NumStmt over the blocks of bs whose index is in S.
SumStmt(bs, S) ==
    IF S = {} THEN 0
    ELSE LET k == CHOOSE x \in S : TRUE
         IN  bs[k].NumStmt + SumStmt(bs, S \ {k})

Range(s) == { s[k] : k \in 1..Len(s) }

\* The block lies fully inside the extent.
Inside(fe, b) ==
    /\ PosLeq(fe.startLine, fe.startCol, b.StartLine, b.StartCol)
    /\ PosLeq(b.EndLine, b.EndCol, fe.endLine, fe.endCol)

\* No two blocks share a position: one ends where or before the other starts.
NonOverlapping(bs) ==
    \A j, k \in 1..Len(bs) :
        j < k => \/ PosLeq(bs[j].EndLine, bs[j].EndCol, bs[k].StartLine, bs[k].StartCol)
                 \/ PosLeq(bs[k].EndLine, bs[k].EndCol, bs[j].StartLine, bs[j].StartCol)

AllInside ==
    /\ NonOverlapping(profile.Blocks)
    /\ \A k \in 1..Len(profile.Blocks) : Inside(f, profile.Blocks[k])

AllIdx == 1..Len(profile.Blocks)

HitIdx == { k \in AllIdx : profile.Blocks[k].Count > 0 }

UnhitIdx == { k \in AllIdx : profile.Blocks[k].Count = 0 }

\* C1 as stated: for non-overlapping blocks that all lie inside the extent
\* (the empty set and blocks of 0 statements included), the returned total is
\* the sum of NumStmt and covered plus the statements never hit is the total.
C1_TotalIsSum ==
    (scan.pc = "ret" /\ AllInside) =>
        /\ scan.total = SumStmt(profile.Blocks, AllIdx)
        /\ scan.covered + SumStmt(profile.Blocks, UnhitIdx) = scan.total

\* C1 amended: for non-overlapping blocks that all lie inside the extent, the
\* returned total is the sum of NumStmt when that sum is positive and 1 when
\* it is 0, and covered plus the statements never hit is the sum of NumStmt.
C1_TotalIsSumOrOne ==
    (scan.pc = "ret" /\ AllInside) =>
        LET sum == SumStmt(profile.Blocks, AllIdx)
        IN  /\ scan.total = (IF sum = 0 THEN 1 ELSE sum)
            /\ scan.covered + SumStmt(profile.Blocks, UnhitIdx) = sum

C1_Witness ==
    /\ scan.pc = "ret"
    /\ AllInside
    /\ Len(profile.Blocks) = 2
    /\ scan.covered > 0
    /\ scan.covered < scan.total

\* The block ends at or before the start of the extent, or starts at or
\* after its end.
Outside(fe, b) ==
    \/ PosLeq(b.EndLine, b.EndCol, fe.startLine, fe.startCol)
    \/ PosLeq(fe.endLine, fe.endCol, b.StartLine, b.StartCol)

\* The block ends on the extent's first line, one column past its start, and
\* starts before the extent's end.
JustInside(fe, b) ==
    /\ b.EndLine = fe.startLine
    /\ b.EndCol = fe.startCol + 1
    /\ PosLess(b.StartLine, b.StartCol, fe.endLine, fe.endCol)

\* C2: (covered, total) are the sums over the blocks the loop added, no block
\* that ends at or before the extent's start or starts at or after its end is
\* ever added, and when the call returns a block with endLine = startLine and
\* endCol = startCol + 1 that starts before the extent's end has been added.
C2_OutsideNeverCounts ==
    LET bs == profile.Blocks
        added == Range(scan.added)
    IN  /\ scan.covered = SumStmt(bs, added \cap HitIdx)
        /\ scan.pc # "ret" => scan.total = SumStmt(bs, added)
        /\ scan.pc = "ret" =>
               scan.total = (IF SumStmt(bs, added) = 0 THEN 1 ELSE SumStmt(bs, added))
        /\ \A k \in added : ~Outside(f, bs[k])
        /\ scan.pc = "ret" => \A k \in AllIdx : JustInside(f, bs[k]) => k \in added

C2_Witness ==
    /\ scan.pc = "ret"
    /\ \E j, k \in AllIdx :
           /\ profile.Blocks[j].EndLine = f.startLine
           /\ profile.Blocks[j].EndCol = f.startCol
           /\ profile.Blocks[j].NumStmt > 0
           /\ JustInside(f, profile.Blocks[k])
           /\ Range(scan.added) = {k}

\* The blocks a scan of the whole profile would count: those that satisfy
\* neither the stop condition nor the skip condition.
FullScanIdx ==
    { k \in AllIdx :
        LET b == profile.Blocks[k]
        IN  /\ ~(b.StartLine > f.endLine \/ (b.StartLine = f.endLine /\ b.StartCol >= f.endCol))
            /\ ~(b.EndLine < f.startLine \/ (b.EndLine = f.startLine /\ b.EndCol <= f.startCol)) }

\* C10: with the blocks in ascending start order, the scan that stops at the
\* first block past the extent's end returns the (covered, total) of a scan of
\* all blocks, total being 1 when the sum is 0.
C10_EarlyStopLosesNothing ==
    scan.pc = "ret" =>
        LET sum == SumStmt(profile.Blocks, FullScanIdx)
        IN  /\ scan.covered = SumStmt(profile.Blocks, FullScanIdx \cap HitIdx)
            /\ scan.total = (IF sum = 0 THEN 1 ELSE sum)

C10_Witness ==
    /\ scan.pc = "ret"
    /\ scan.i <= Len(profile.Blocks)
    /\ scan.added # <<>>
    /\ profile.Blocks[scan.i].NumStmt > 0

(***************************************************************************)
(* Properties of findFile.                                                 *)
(***************************************************************************)
NeedsPackage == ~HasPrefix(file, <<".">>) /\ ~IsAbs(file)

Entry == Lookup(pkgs, Dir(file))

\* C8 as stated: for a reference that is neither relative nor absolute, an
\* entry with an embedded error yields that error whether or not the entry
\* has a directory, a missing entry yields the package-not-found error, and
\* the joined path is returned only for an entry without an error.
C8_ErrorWheneverEmbedded ==
    (found.pc = "ret" /\ NeedsPackage) =>
        /\ (~Entry.nil /\ ~Entry.Error.nil) => found.err = ErrorsNew(Entry.Error.Err)
        /\ Entry.nil =>
               found.err = Errorf("did not find package for %s in go list output", file)
        /\ found.err.nil => (~Entry.nil /\ Entry.Error.nil)

\* C8 amended: for a reference that is neither relative nor absolute, an entry
\* with a directory yields the join of the directory and the base name even
\* when it carries an embedded error; an entry without a directory yields its
\* embedded error when it has one; a missing entry, and an entry with neither
\* directory nor error, yields the package-not-found error.
C8_DirBeforeError ==
    (found.pc = "ret" /\ NeedsPackage) =>
        /\ (~Entry.nil /\ Entry.Dir # <<>>) =>
               /\ found.err.nil
               /\ found.path = Entry.Dir \o <<"/">> \o Base(file)
        /\ (~Entry.nil /\ Entry.Dir = <<>> /\ ~Entry.Error.nil) =>
               /\ found.err = ErrorsNew(Entry.Error.Err)
               /\ found.path = <<>>
        /\ (Entry.nil \/ (Entry.Dir = <<>> /\ Entry.Error.nil)) =>
               /\ found.err = Errorf("did not find package for %s in go list output", file)
               /\ found.path = <<>>

C8_Witness ==
    /\ found.pc = "ret"
    /\ NeedsPackage
    /\ ~Entry.nil
    /\ Entry.Dir # <<>>
    /\ ~Entry.Error.nil
    /\ found.err.nil
    /\ found.path = <<"/", "w", "/", "p", "/", "e">>

(***************************************************************************)
(* Properties of test.                                                     *)
(***************************************************************************)
ExtentOf(node) ==
    FuncExtent(node.name, node.pos.Line, node.pos.Column, node.end.Line, node.end.Column)

ExtentsOf(nodes) == [k \in 1..Len(nodes) |-> ExtentOf(nodes[k])]

IsFunction(node) == node.type = "FuncDecl" /\ ~node.recv

IsMethod(node) == node.type = "FuncDecl" /\ node.recv

IsDeclared(node) == node.type = "FuncDecl"

\* C9 as stated: the extents collected are those of the function
\* declarations without a receiver, one each; methods and function literals
\* add none.
C9_NoMethods ==
    (visit.pc = "ret" /\ visit.err.nil) =>
        visit.funcs = ExtentsOf(SelectSeq(parsed.ast.children, IsFunction))

\* C9 amended: the extents collected are those of the function declarations
\* of the file, in source order, one each, those with a receiver (methods)
\* included; function literals, nested in a body or in a variable's value,
\* add none.
C9_MethodsIncluded ==
    (visit.pc = "ret" /\ visit.err.nil) =>
        visit.funcs = ExtentsOf(SelectSeq(parsed.ast.children, IsDeclared))

C9_Witness ==
    /\ visit.pc = "ret"
    /\ visit.err.nil
    /\ \E k \in 1..Len(parsed.ast.children) :
           /\ IsMethod(parsed.ast.children[k])
           /\ parsed.ast.children[k].children[1].children # <<>>
           /\ ExtentOf(parsed.ast.children[k]) \in Range(visit.funcs)
    /\ \E k \in 1..Len(parsed.ast.children) : IsFunction(parsed.ast.children[k])
    /\ \E k \in 1..Len(parsed.ast.children) :
           /\ parsed.ast.children[k].type = "GenDecl"
           /\ parsed.ast.children[k].children # <<>>
    /\ Len(visit.funcs) = 2

(***************************************************************************)
(* Properties of main and run.                                             *)
(***************************************************************************)
\* The run has ended and run returned nil.
Reported == pc = "exit" /\ err.nil

FileRows == SelectSeq(stdout, LAMBDA line : line.kind = "file")

TotalRows == SelectSeq(stdout, LAMBDA line : line.kind = "total")

\* The extents of the file of a profile, as the run resolves and parses it.
ExtentsOfProfile(p) == test(ParseFile(findFile(dirs, p.FileName).path)).funcs

\* The sum over the extents fes of the field (num or den) of coverage.
RECURSIVE SumFuncs(_, _, _)
SumFuncs(fes, p, field) ==
    IF fes = <<>> THEN 0
    ELSE coverage(Head(fes), p)[field] + SumFuncs(Tail(fes), p, field)

\* The sum over every function of every file.
RECURSIVE SumFiles(_, _)
SumFiles(ps, field) ==
    IF ps = <<>> THEN 0
    ELSE SumFuncs(ExtentsOfProfile(Head(ps)), Head(ps), field) + SumFiles(Tail(ps), field)

\* One file, function A with a block of 3 statements hit 5 times, function B
\* with a block of 2 statements never hit.
ExampleProfile ==
    [FileName |-> aGo, Blocks |-> <<BodyBlock(1, 3, 5), BodyBlock(2, 2, 0)>>]

\* text shows, to one decimal place, the quotient 100 * c / t: NaN when t is
\* 0, and else the tenth nearest to it.
Shows(text, c, t) ==
    IF t = 0 THEN text.nan
    ELSE /\ ~text.nan
         /\ 2 * (1000 * c - text.tenths * t) <= t
         /\ 2 * (text.tenths * t - 1000 * c) <= t

\* C3: the Total row of a report shows 100 * (sum of covered over every
\* function of every file) / (sum of total over every function of every
\* file); for the one-file example the file row and the Total row show 60.0.
C3_TotalIsWeighted ==
    Reported =>
        /\ Len(TotalRows) = 1
        /\ stdout[Len(stdout)].kind = "total"
        /\ Shows(stdout[Len(stdout)].text,
                 SumFiles(profiles, "num"), SumFiles(profiles, "den"))
        /\ profiles = <<ExampleProfile>> =>
               /\ FileRows = <<[kind |-> "file", color |-> "Yellow", name |-> aGo,
                                text |-> [nan |-> FALSE, tenths |-> 600], err |-> NoError]>>
               /\ stdout[Len(stdout)].text = [nan |-> FALSE, tenths |-> 600]

\* The mean of two percentages.
Mean(p, q) == [nan |-> p.nan \/ q.nan, num |-> p.num * q.den + q.num * p.den,
               den |-> 2 * p.den * q.den]

\* Two files, the example file among them at 60.0, and a Total row that is
\* not the mean of the two file rows.
C3_Witness ==
    /\ Reported
    /\ Len(profiles) = 2
    /\ ExampleProfile \in Range(profiles)
    /\ \E k \in 1..2 : FileRows[k].name = aGo /\ FileRows[k].text.tenths = 600
    /\ ~coverfiles[1].percent.nan
    /\ ~coverfiles[2].percent.nan
    /\ LET mean == Mean(coverfiles[1].percent, coverfiles[2].percent)
       IN  ~Shows(stdout[Len(stdout)].text, mean.num, 100 * mean.den)

\* C4: the denominator of every file's percent is at least 1, also for a file
\* without function extents, and so is the denominator of the Total row: no
\* percent is the result of a division by zero.
C4_DenominatorAtLeastOne ==
    /\ \A k \in 1..Len(coverfiles) :
           /\ coverfiles[k].percent.den >= 1
           /\ ~coverfiles[k].percent.nan
    /\ \A k \in 1..Len(stdout) :
           stdout[k].kind \in {"file", "total"} => ~stdout[k].text.nan

\* The place in the profile list of the file of a row.
OrderOf(name) ==
    CHOOSE k \in 1..Len(profiles) : findFile(dirs, profiles[k].FileName).path = name

SamePercent(p, q) == ~p.nan /\ ~q.nan /\ p.num * q.den = q.num * p.den

\* C5: in a report none of whose percentages is NaN, the rows are the files
\* of the profiles, each once; the percentages do not decrease from row to
\* row (do not increase with reverse); and files of equal percent stay in the
\* order their profiles were processed in.
C5_SortedAndStable ==
    (Reported /\ \A k \in 1..Len(coverfiles) : ~coverfiles[k].percent.nan) =>
        /\ FileRows = [k \in 1..Len(coverfiles) |-> FileRow(coverfiles[k])]
        /\ Len(coverfiles) = Len(profiles)
        /\ \A k \in 1..Len(profiles) :
               \E j \in 1..Len(coverfiles) :
                   coverfiles[j].filename = findFile(dirs, profiles[k].FileName).path
        /\ \A j, k \in 1..Len(coverfiles) :
               j < k =>
                   /\ ~args.reverse => ~Less(coverfiles[k].percent, coverfiles[j].percent)
                   /\ args.reverse => ~Less(coverfiles[j].percent, coverfiles[k].percent)
                   /\ SamePercent(coverfiles[j].percent, coverfiles[k].percent) =>
                          OrderOf(coverfiles[j].filename) < OrderOf(coverfiles[k].filename)

\* C6: once a step of the run has failed, no file row and no Total row has
\* been written, to the tab writer or to standard output.
C6_NoPartialReport ==
    ~err.nil =>
        /\ tabber = <<>>
        /\ \A k \in 1..Len(stdout) : stdout[k].kind = "error"

\* The third profile fails after two files were processed.
C6_Witness ==
    /\ pc = "exit"
    /\ ~err.nil
    /\ Len(coverfiles) = 2
    /\ idx = 3
    /\ stdout = <<ErrorLine(err)>>

\* C7: a run that failed has printed its error and ends with a status other
\* than 0; a run ends with status 0 only after the full report.
C7_FailureExitsNonZero ==
    pc = "exit" =>
        /\ ~err.nil => (stdout[Len(stdout)] = ErrorLine(err) /\ exitCode # 0)
        /\ exitCode = 0 => (err.nil /\ Len(TotalRows) = 1)

====
